---- MODULE Spec2Model ----
(***************************************************************************)
(* Model of natcap_invest_docker_flask/invest_http_flask.py: the HTTP      *)
(* request validation and orchestration layer in front of the InVEST       *)
(* pollination model runner.                                               *)
(*                                                                         *)
(* Python values are modelled as follows.                                  *)
(*   - a dict is a function whose DOMAIN is the set of keys present, so    *)
(*     d[k] on an absent key is the KeyError of the source;                *)
(*   - None / "no such key" for an input is the empty tuple <<>> and a     *)
(*     present value v is <<v>> (only while inputs are being built);       *)
(*   - the strings the code upper-cases are tuples of characters, so that  *)
(*     str.upper() is computed character by character;                     *)
(*   - an exception is a record whose field exc names its class; NoExc     *)
(*     stands for normal return.                                           *)
(***************************************************************************)
EXTENDS Integers, Sequences, FiniteSets, TLC

VARIABLES
    socketio,   \* AppBuilder.socketio: TRUE once set_socketio has been called
    pc,         \* "idle" | "running" (inside runner_fn) | "done" (response produced)
    request,    \* the request being handled
    run,        \* progress of the model runner inside runner_fn
    events,     \* what socketio.emit has sent for the current request
    log,        \* what the request has written to the logger
    response,   \* the HTTP response of the current request
    geoIn,      \* input of a direct assert_geojson call
    geoOut      \* its outcome

vars == <<socketio, pc, request, run, events, log, response, geoIn, geoOut>>
mainVars == <<socketio, pc, request, run, events, log, response>>
geoVars == <<geoIn, geoOut>>

---------------------------------------------------------------------------
(* Bounds of the model *)

\* simulated years and varroa mite years are drawn from 0..MaxSmallYears
\* (plus the values around MAX_YEARS_TO_SIMULATE)
MaxSmallYears == 3
\* the feature list of a geometry document has at most MaxFeatures features
MaxFeatures == 2
\* the 'years' query parameter ranges over -MaxYearsArg..MaxYearsArg
\* (plus the values around max_years_limit)
MaxYearsArg == 22
\* multiprocessing.cpu_count() ranges over 1..MaxCpu
MaxCpu == 5

---------------------------------------------------------------------------
(* Program constants *)

MAX_YEARS_TO_SIMULATE == 30
crop_type_key == "crop_type"
max_years_limit == 50
time_per_year == 4
default_reveg_years == 15
min_runtime_seconds == 15

---------------------------------------------------------------------------
(* Python values *)

None == <<>>
Some(v) == <<v>>

\* the dict with the given <<key, optional value>> pairs, absent values left out
Dict(kvs) ==
    LET present == {i \in DOMAIN kvs : kvs[i][2] # None}
    IN  [k \in {kvs[i][1] : i \in present} |->
            kvs[CHOOSE i \in present : kvs[i][1] = k][2][1]]

Lower == <<"a","b","c","d","e","f","g","h","i","j","k","l","m",
           "n","o","p","q","r","s","t","u","v","w","x","y","z">>
Upper == <<"A","B","C","D","E","F","G","H","I","J","K","L","M",
           "N","O","P","Q","R","S","T","U","V","W","X","Y","Z">>

\* str.upper(), one character
upper_char(c) ==
    IF \E i \in DOMAIN Lower : Lower[i] = c
    THEN Upper[CHOOSE i \in DOMAIN Lower : Lower[i] = c]
    ELSE c

\* str.upper()
upper(s) == [i \in DOMAIN s |-> upper_char(s[i])]

s_FeatureCollection == <<"F","e","a","t","u","r","e","C","o","l","l","e","c","t","i","o","n">>
s_featurecollection == <<"f","e","a","t","u","r","e","c","o","l","l","e","c","t","i","o","n">>
s_FEATURECOLLECTION == <<"F","E","A","T","U","R","E","C","O","L","L","E","C","T","I","O","N">>
s_Feature == <<"F","e","a","t","u","r","e">>
s_Polygon == <<"P","o","l","y","g","o","n">>
s_POLYGON == <<"P","O","L","Y","G","O","N">>
s_Point == <<"P","o","i","n","t">>

---------------------------------------------------------------------------
(* Exceptions *)

NoExc == [exc |-> "None"]

\* InvalidUsage.__init__ with an explicit status code
InvalidUsageWith(message, status_code) ==
    [exc |-> "InvalidUsage", message |-> message, status_code |-> status_code]

\* InvalidUsage.__init__ with status_code=None: the class attribute 400 stays
InvalidUsage(message) == InvalidUsageWith(message, 400)

\* the KeyError of d[key] on a dict without that key
KeyError(key) == [exc |-> "KeyError", key |-> key]

\* InvalidUsage.to_dict: payload is None, so the dict holds the message alone
to_dict(error) == [message |-> error.message]

---------------------------------------------------------------------------
(* GeoJSON validation *)

\* the geometry classes geojson.factory knows among the names the model uses
\* (the lookup is by exact name: "POLYGON" is no class of the library)
geojson_classes == {s_Polygon, s_Point}

\* geojson.loads builds a geometry object for every JSON object whose 'type'
\* names a geometry class, and that constructor raises ValueError on
\* coordinates that are not numbers
is_bad_geometry(ob) ==
    /\ "type" \in DOMAIN ob
    /\ ob["type"] \in geojson_classes
    /\ "coordinates" \in DOMAIN ob
    /\ ob["coordinates"] = "non_numeric"

\* geojson.loads(dumps(geojson_dict)): the mapping read back, or ValueError
geojson_loads(geojson_dict) ==
    IF /\ "features" \in DOMAIN geojson_dict
       /\ \E i \in DOMAIN geojson_dict["features"] :
            /\ "geometry" \in DOMAIN geojson_dict["features"][i]
            /\ is_bad_geometry(geojson_dict["features"][i]["geometry"])
    THEN [exc |-> "ValueError"]
    ELSE [exc |-> "None", value |-> geojson_dict]

\* assert_geojson(the_req, key); the caller has checked that key is present
assert_geojson(the_req, key) ==
    LET geojson_dict == the_req[key]
        loaded == geojson_loads(geojson_dict)
    IN  IF loaded.exc = "ValueError"
        THEN InvalidUsage(<<key, " is not valid geojson: ", "ValueError">>)
        ELSE LET g == loaded.value IN
        IF "type" \notin DOMAIN g
        THEN KeyError("type")
        ELSE IF upper(g["type"]) # s_FEATURECOLLECTION
        THEN InvalidUsage(<<key, " vector is not a FeatureCollection">>)
        ELSE IF "features" \notin DOMAIN g
        THEN KeyError("features")
        ELSE LET feats == g["features"] IN
        IF Len(feats) # 1
        THEN InvalidUsage(<<key, " must have exactly 1 feature">>)
        ELSE IF "geometry" \notin DOMAIN feats[1]
        THEN KeyError("geometry")
        ELSE IF "type" \notin DOMAIN feats[1]["geometry"]
        THEN KeyError("type")
        ELSE IF upper(feats[1]["geometry"]["type"]) # s_POLYGON
        THEN InvalidUsage(<<key, " feature is not a Polygon">>)
        ELSE NoExc

---------------------------------------------------------------------------
(* Geometry documents the requests are drawn from *)

Geometries ==
    {Dict(<< <<"type", t>>, <<"coordinates", Some(c)>> >>) :
        t \in {None, Some(s_Polygon), Some(s_POLYGON), Some(s_Point)},
        c \in {"numeric", "non_numeric"}}

Features ==
    {Dict(<< <<"type", Some(s_Feature)>>, <<"geometry", g>> >>) :
        g \in {None} \cup {Some(x) : x \in Geometries}}

FeatureLists == UNION {[1..n -> Features] : n \in 0..MaxFeatures}

\* every document, for the direct calls of assert_geojson
GeoDocs ==
    {Dict(<< <<"type", t>>, <<"features", f>> >>) :
        t \in {None, Some(s_FeatureCollection), Some(s_featurecollection),
               Some(s_Feature)},
        f \in {None} \cup {Some(x) : x \in FeatureLists}}

polygon_feature ==
    [type |-> s_Feature,
     geometry |-> [type |-> s_Polygon, coordinates |-> "numeric"]]

\* a single-polygon feature collection
doc_ok == [type |-> s_FeatureCollection, features |-> <<polygon_feature>>]
\* the same without its 'type'
doc_no_type == [features |-> <<polygon_feature>>]
\* two features
doc_two_features ==
    [type |-> s_FeatureCollection, features |-> <<polygon_feature, polygon_feature>>]
\* a polygon whose coordinates are not numbers
doc_malformed ==
    [type |-> s_FeatureCollection,
     features |-> << [type |-> s_Feature,
                      geometry |-> [type |-> s_Polygon,
                                    coordinates |-> "non_numeric"]] >>]

\* the documents a request body carries as farm or reveg
BodyGeoDocs == {doc_ok, doc_no_type, doc_two_features, doc_malformed}

---------------------------------------------------------------------------
(* Request validation *)

required_keys == <<"years", crop_type_key, "farm", "reveg">>
valid_crop_types == <<"apple", "canola", "lucerne">>

\* assert_json_schema: the verdict of validating the body against
\* pollination_schema is an input of the request (schema_valid)
assert_json_schema(schema_valid) ==
    IF schema_valid
    THEN NoExc
    ELSE InvalidUsage(<<"JSON schema validation failed: ", "inputs.errors">>)

\* validate_request(request_dict)
validate_request(request_dict, schema_valid) ==
    IF \E i \in DOMAIN required_keys : required_keys[i] \notin DOMAIN request_dict
    THEN InvalidUsage(<<"POST body must have the keys: ", required_keys>>)
    ELSE IF \A i \in DOMAIN valid_crop_types :
                request_dict[crop_type_key] # valid_crop_types[i]
    THEN InvalidUsage(<<"crop_type must be one of: ", valid_crop_types>>)
    ELSE LET farm == assert_geojson(request_dict, "farm") IN
    IF farm.exc # "None"
    THEN farm
    ELSE LET reveg == assert_geojson(request_dict, "reveg") IN
    IF reveg.exc # "None"
    THEN reveg
    ELSE assert_json_schema(schema_valid)

\* AppBuilder.validate_req(ignore_failure): what it raises and what it logs
validate_req(req, ignore_failure) ==
    IF ~req.is_json
    THEN [raised |-> InvalidUsageWith(<<"POST body doesn't look like JSON">>, 415),
          logged |-> <<>>]
    ELSE LET e == validate_request(req.body, req.schema_valid) IN
    IF e.exc = "None"
    THEN [raised |-> NoExc, logged |-> <<>>]
    ELSE IF ignore_failure
    THEN [raised |-> NoExc,
          logged |-> << [level |-> "exception", error |-> e] >>]
    ELSE [raised |-> e, logged |-> <<>>]

---------------------------------------------------------------------------
(* Request orchestration *)

\* log_geojson(data, type_of_vector): one debug line tagged with the role
log_geojson(type_of_vector) == [level |-> "debug", vector |-> type_of_vector]

\* a plausible slip of the bounds check: 0 <= n instead of 0 < n
varroa_mite_year_in_range_slip(varroa_mite_year, years_to_simulate) ==
    0 =< varroa_mite_year /\ varroa_mite_year < years_to_simulate

\* the chained comparison 0 < varroa_mite_year < years_to_simulate
varroa_mite_year_in_range(varroa_mite_year, years_to_simulate) ==
    0 < varroa_mite_year /\ varroa_mite_year < years_to_simulate

\* AppBuilder.do_handle_request up to the call of runner_fn: what it raises,
\* what it logs and, when nothing is raised, the call it makes
do_handle_request(post_body, runner_fn) ==
    IF "years" \notin DOMAIN post_body
    THEN [raised |-> KeyError("years"), logged |-> <<>>]
    ELSE LET years_to_simulate == post_body["years"] IN
    IF years_to_simulate > MAX_YEARS_TO_SIMULATE
    THEN [raised |-> InvalidUsage(<<"years cannot be > ", "MAX_YEARS_TO_SIMULATE">>),
          logged |-> <<>>]
    ELSE IF "varroa_mite_year" \notin DOMAIN post_body
    THEN [raised |-> KeyError("varroa_mite_year"), logged |-> <<>>]
    ELSE LET varroa_mite_year == post_body["varroa_mite_year"] IN
    IF ~varroa_mite_year_in_range(varroa_mite_year, years_to_simulate)
    THEN [raised |-> InvalidUsage(<<"varroa_mite_year must be 0 < n < years">>),
          logged |-> <<>>]
    ELSE IF "farm" \notin DOMAIN post_body
    THEN [raised |-> KeyError("farm"), logged |-> <<>>]
    ELSE IF "reveg" \notin DOMAIN post_body
    THEN [raised |-> KeyError("reveg"), logged |-> <<log_geojson("farm")>>]
    ELSE IF crop_type_key \notin DOMAIN post_body
    THEN [raised |-> KeyError(crop_type_key),
          logged |-> <<log_geojson("farm"), log_geojson("reveg")>>]
    ELSE [raised |-> NoExc,
          logged |-> <<log_geojson("farm"), log_geojson("reveg")>>,
          call |-> [started |-> TRUE,
                    runner_fn |-> runner_fn,
                    farm |-> post_body["farm"],
                    years |-> years_to_simulate,
                    reveg |-> post_body["reveg"],
                    crop_type |-> post_body[crop_type_key],
                    varroa_mite_year |-> varroa_mite_year,
                    socketio_sid |-> IF "socketio_sid" \in DOMAIN post_body
                                     THEN Some(post_body["socketio_sid"])
                                     ELSE None,
                    count_sent |-> FALSE,
                    years_done |-> 0]]

\* a plausible slip of send_socket_msg: the early return taken for the empty
\* string only, so that an absent subscriber id reaches emit
send_socket_msg_slip(code, msg, socketio_sid, has_socketio, delivery) ==
    IF socketio_sid = Some("")
    THEN [raised |-> NoExc, emitted |-> <<>>]
    ELSE IF ~has_socketio
    THEN [raised |-> [exc |-> "AttributeError", name |-> "socketio"],
          emitted |-> <<>>]
    ELSE IF delivery = "emit_raises"
    THEN [raised |-> [exc |-> "DeliveryError", during |-> "emit"],
          emitted |-> <<>>]
    ELSE LET event == [code |-> code, msg |-> msg, room |-> socketio_sid] IN
    IF delivery = "sleep_raises"
    THEN [raised |-> [exc |-> "DeliveryError", during |-> "sleep"],
          emitted |-> <<event>>]
    ELSE [raised |-> NoExc, emitted |-> <<event>>]

\* send_socket_msg(code, msg): what it raises and what it has emitted by then.
\* has_socketio: whether self.socketio was ever set; delivery: how the event
\* channel behaves for this event
send_socket_msg(code, msg, socketio_sid, has_socketio, delivery) ==
    IF socketio_sid = None \/ socketio_sid = Some("")
    THEN [raised |-> NoExc, emitted |-> <<>>]
    ELSE IF ~has_socketio
    THEN [raised |-> [exc |-> "AttributeError", name |-> "socketio"],
          emitted |-> <<>>]
    ELSE IF delivery = "emit_raises"
    THEN [raised |-> [exc |-> "DeliveryError", during |-> "emit"],
          emitted |-> <<>>]
    ELSE LET event == [code |-> code, msg |-> msg, room |-> socketio_sid[1]] IN
    IF delivery = "sleep_raises"
    THEN [raised |-> [exc |-> "DeliveryError", during |-> "sleep"],
          emitted |-> <<event>>]
    ELSE [raised |-> NoExc, emitted |-> <<event>>]

\* a plausible slip of send_total_sim_count: the other callback's event code
send_total_sim_count_slip(count, socketio_sid, has_socketio, delivery) ==
    send_socket_msg("year-complete", [count |-> count],
                    socketio_sid, has_socketio, delivery)

\* send_total_sim_count(count)
send_total_sim_count(count, socketio_sid, has_socketio, delivery) ==
    send_socket_msg("sim-count", [count |-> count],
                    socketio_sid, has_socketio, delivery)

\* mark_year_as_done()
mark_year_as_done(socketio_sid, has_socketio, delivery) ==
    send_socket_msg("year-complete",
                    [msg |-> "completed another year in the simulation"],
                    socketio_sid, has_socketio, delivery)

---------------------------------------------------------------------------
(* Responses *)

\* handle_invalid_usage(error)
handle_invalid_usage(error) ==
    [status_code |-> error.status_code, json |-> to_dict(error)]

\* how Flask answers an exception that leaves a view function: InvalidUsage
\* goes to the registered error handler, flask_accept's NotAcceptable is an
\* HTTP exception answered as such, anything else is the 500 of an
\* unhandled error
flask_handle_exception(e) ==
    IF e.exc = "InvalidUsage"
    THEN handle_invalid_usage(e)
    ELSE IF e.exc = "NotAcceptable"
    THEN [status_code |-> 406, http_exception |-> e]
    ELSE [status_code |-> 500, unhandled |-> e]

\* jsonify(result)
jsonify(result) == [status_code |-> 200, json |-> result]

---------------------------------------------------------------------------
(* GET handlers *)

\* request.args.get('years', default=..., type=int): the default when the
\* parameter is absent or does not convert to int
args_get(arg, default) ==
    IF arg.kind = "int" THEN Some(arg.value) ELSE default

\* `not years` for an optional integer
is_falsy(years) == years = None \/ years = Some(0)

\* the ceiling of the exact quotient n / d, for d > 0
exact_ceil(n, d) == -((-n) \div d)

\* the <<years, cpu_count>> (|years| <= 60, cpu_count <= 32) whose exact
\* quotient years / (1 + cpu_count/10) is an integer while its evaluation in
\* double precision, 1.0 * years / (1 + (1.0 * cpu_count / 10)), lies above
\* that integer
double_above_exact ==
    {<<21, 4>>, <<42, 4>>, <<42, 18>>,
     <<-33, 1>>, <<-55, 1>>, <<-33, 12>>, <<-55, 12>>}

\* math.ceil(1.0 * years / diluted_cpu_effect), with
\* diluted_cpu_effect = 1 + (1.0 * cpu_count / 10)
ceil_diluted(years, cpu_count) ==
    exact_ceil(10 * years, 10 + cpu_count)
        + (IF <<years, cpu_count>> \in double_above_exact THEN 1 ELSE 0)

\* a plausible slip of raw_guess: the ceiling taken after the multiplication
raw_guess_slip(years, cpu_count) ==
    exact_ceil(time_per_year * 10 * years, 10 + cpu_count)

\* raw_guess = time_per_year * math.ceil(1.0 * years / diluted_cpu_effect)
raw_guess(years, cpu_count) ==
    time_per_year * ceil_diluted(years, cpu_count)

\* estimate_runtime()
estimate_runtime(years_arg, cpu_count) ==
    LET years == args_get(years_arg, None) IN
    IF is_falsy(years)
    THEN flask_handle_exception(InvalidUsage(
            <<"The 'years' param is required and must be an integer >= 1">>))
    ELSE LET guess == raw_guess(years[1], cpu_count)
             result == IF guess > min_runtime_seconds
                       THEN guess ELSE min_runtime_seconds
         IN  jsonify([seconds |-> result])

\* reveg_alg.plot.generate_chart(max_years=years)
generate_chart(max_years) == [chart |-> "png", max_years |-> max_years]

\* reveg_curve_png()
reveg_curve_png(years_arg) ==
    LET years == args_get(years_arg, Some(default_reveg_years)) IN
    IF is_falsy(years) \/ years[1] > max_years_limit
    THEN flask_handle_exception(InvalidUsage(
            <<"The 'years' param, if supplied, must be an integer >= 1 && <= ",
              "max_years_limit">>))
    ELSE [status_code |-> 200, mimetype |-> "image/png",
          data |-> generate_chart(years[1])]

---------------------------------------------------------------------------
(* The model runner *)

\* the value runner_fn returns: a function of its arguments alone
runner_result(call) ==
    [runner_fn |-> call.runner_fn, farm |-> call.farm, years |-> call.years,
     reveg |-> call.reveg, crop_type |-> call.crop_type,
     varroa_mite_year |-> call.varroa_mite_year]

\* the count the runner reports through send_total_sim_count
total_sim_count(call) == call.years

---------------------------------------------------------------------------
(* Inputs *)

YearsInputs ==
    (0..MaxSmallYears) \cup {MAX_YEARS_TO_SIMULATE, MAX_YEARS_TO_SIMULATE + 1}
VarroaInputs == 0..MaxSmallYears
CropInputs == {"lucerne", "banana"}
SidInputs == {"", "sid-1"}

Optional(S) == {None} \cup {Some(x) : x \in S}

Bodies ==
    {Dict(<< <<"years", y>>, <<crop_type_key, c>>, <<"farm", f>>,
             <<"reveg", r>>, <<"varroa_mite_year", v>>, <<"socketio_sid", s>> >>) :
        y \in Optional(YearsInputs), c \in Optional(CropInputs),
        f \in Optional(BodyGeoDocs), r \in Optional(BodyGeoDocs),
        v \in Optional(VarroaInputs), s \in Optional(SidInputs)}

\* a POST request: whether its Accept header admits application/json, whether
\* its Content-Type is JSON and, for the requests whose body is read (accepted
\* and JSON), the body and the schema's verdict on it
PostRequests(endpoint) ==
    {[endpoint |-> endpoint, accept_ok |-> FALSE, is_json |-> j] :
        j \in BOOLEAN}
    \cup
    {[endpoint |-> endpoint, accept_ok |-> TRUE, is_json |-> FALSE]}
    \cup
    {[endpoint |-> endpoint, accept_ok |-> TRUE, is_json |-> TRUE,
      body |-> b, schema_valid |-> sv] :
        b \in Bodies, sv \in BOOLEAN}

QueryArgs ==
    {[kind |-> "absent"], [kind |-> "text"]}
    \cup {[kind |-> "int", value |-> n] :
            n \in (-MaxYearsArg..MaxYearsArg)
                  \cup {max_years_limit - 1, max_years_limit, max_years_limit + 1}}

Deliveries == {"delivered", "emit_raises", "sleep_raises"}

---------------------------------------------------------------------------
(* State machine *)

NoRequest == [endpoint |-> "none"]
NotStarted == [started |-> FALSE]
NoResponse == [status_code |-> 0]
NoGeo == [key |-> "none"]

Init ==
    /\ socketio = FALSE
    /\ pc = "idle"
    /\ request = NoRequest
    /\ run = NotStarted
    /\ events = <<>>
    /\ log = <<>>
    /\ response = NoResponse
    /\ geoIn = NoGeo
    /\ geoOut = NoExc

\* AppBuilder.set_socketio(socketio)
set_socketio ==
    /\ pc = "idle"
    /\ ~socketio
    /\ socketio' = TRUE
    /\ UNCHANGED <<pc, request, run, events, log, response, geoVars>>

\* a POST view: the @accept decorator, validate_req, and do_handle_request up
\* to the call of runner_fn
post_view(req, ignore_failure, runner_fn) ==
    /\ request' = req
    /\ events' = <<>>
    /\ LET v == IF req.accept_ok
                THEN validate_req(req, ignore_failure)
                ELSE [raised |-> [exc |-> "NotAcceptable"], logged |-> <<>>]
       IN  IF v.raised.exc # "None"
           THEN /\ response' = flask_handle_exception(v.raised)
                /\ log' = v.logged
                /\ run' = NotStarted
                /\ pc' = "done"
           ELSE LET h == do_handle_request(req.body, runner_fn) IN
                IF h.raised.exc # "None"
                THEN /\ response' = flask_handle_exception(h.raised)
                     /\ log' = v.logged \o h.logged
                     /\ run' = NotStarted
                     /\ pc' = "done"
                ELSE /\ response' = NoResponse
                     /\ log' = v.logged \o h.logged
                     /\ run' = h.call
                     /\ pc' = "running"
    /\ UNCHANGED <<socketio, geoVars>>

\* AppBuilder.pollination
pollination ==
    /\ pc = "idle"
    /\ \E req \in PostRequests("pollination") :
        post_view(req, FALSE, "execute_model")

\* AppBuilder.run_sample
run_sample ==
    /\ pc = "idle"
    /\ \E req \in PostRequests("run-sample") :
        post_view(req, TRUE, "execute_model_for_sample_data")

\* what a progress callback did to the request: it returned and the runner goes
\* on (with run updated), or it raised and the exception leaves runner_fn and
\* do_handle_request
after_callback(r, next_run) ==
    /\ events' = events \o r.emitted
    /\ IF r.raised.exc = "None"
       THEN /\ run' = next_run
            /\ UNCHANGED <<pc, response>>
       ELSE /\ response' = flask_handle_exception(r.raised)
            /\ pc' = "done"
            /\ UNCHANGED run
    /\ UNCHANGED <<socketio, request, log, geoVars>>

\* the runner reports the total count, once, at the start of the run
runner_total_count ==
    /\ pc = "running"
    /\ ~run.count_sent
    /\ \E delivery \in Deliveries :
        after_callback(
            send_total_sim_count(total_sim_count(run), run.socketio_sid,
                                 socketio, delivery),
            [run EXCEPT !.count_sent = TRUE])

\* the runner completes one simulated year
runner_year_complete ==
    /\ pc = "running"
    /\ run.count_sent
    /\ run.years_done < run.years
    /\ \E delivery \in Deliveries :
        after_callback(
            mark_year_as_done(run.socketio_sid, socketio, delivery),
            [run EXCEPT !.years_done = @ + 1])

\* runner_fn returns and do_handle_request answers jsonify(result)
runner_return ==
    /\ pc = "running"
    /\ run.count_sent
    /\ run.years_done = run.years
    /\ response' = jsonify(runner_result(run))
    /\ pc' = "done"
    /\ UNCHANGED <<socketio, request, run, events, log, geoVars>>

\* GET /estimate-runtime
get_estimate_runtime ==
    /\ pc = "idle"
    /\ \E years_arg \in QueryArgs, cpu_count \in 1..MaxCpu :
        /\ request' = [endpoint |-> "estimate-runtime", years_arg |-> years_arg,
                       cpu_count |-> cpu_count]
        /\ response' = estimate_runtime(years_arg, cpu_count)
    /\ pc' = "done"
    /\ run' = NotStarted
    /\ events' = <<>>
    /\ log' = <<>>
    /\ UNCHANGED <<socketio, geoVars>>

\* GET /reveg-curve.png
get_reveg_curve_png ==
    /\ pc = "idle"
    /\ \E years_arg \in QueryArgs :
        /\ request' = [endpoint |-> "reveg-curve.png", years_arg |-> years_arg]
        /\ response' = reveg_curve_png(years_arg)
    /\ pc' = "done"
    /\ run' = NotStarted
    /\ events' = <<>>
    /\ log' = <<>>
    /\ UNCHANGED <<socketio, geoVars>>

\* the response is sent and the worker takes the next request
next_request ==
    /\ pc = "done"
    /\ pc' = "idle"
    /\ request' = NoRequest
    /\ run' = NotStarted
    /\ events' = <<>>
    /\ log' = <<>>
    /\ response' = NoResponse
    /\ UNCHANGED <<socketio, geoVars>>

Next ==
    \/ set_socketio
    \/ pollination
    \/ run_sample
    \/ runner_total_count
    \/ runner_year_complete
    \/ runner_return
    \/ get_estimate_runtime
    \/ get_reveg_curve_png
    \/ next_request

Spec == Init /\ [][Next]_vars

---------------------------------------------------------------------------
(* Direct calls of assert_geojson *)

InitGeo ==
    /\ socketio = FALSE
    /\ pc = "idle"
    /\ request = NoRequest
    /\ run = NotStarted
    /\ events = <<>>
    /\ log = <<>>
    /\ response = NoResponse
    /\ geoIn \in {[key |-> k, the_req |-> Dict(<< <<k, Some(d)>> >>), called |-> FALSE] :
                    k \in {"farm", "reveg"}, d \in GeoDocs}
    /\ geoOut = NoExc

call_assert_geojson ==
    /\ geoIn.key # "none"
    /\ ~geoIn.called
    /\ geoOut' = assert_geojson(geoIn.the_req, geoIn.key)
    /\ geoIn' = [geoIn EXCEPT !.called = TRUE]
    /\ UNCHANGED mainVars

NextGeo == call_assert_geojson

SpecGeo == InitGeo /\ [][NextGeo]_vars

---------------------------------------------------------------------------
(* Vocabulary of the properties *)

\* the request is a POST whose body the view has read
BodyRead ==
    /\ request.endpoint \in {"pollination", "run-sample"}
    /\ request.accept_ok
    /\ request.is_json

Handled == pc \in {"running", "done"}

\* 0 < varroa_mite_year < years <= MAX_YEARS_TO_SIMULATE
BoundsHold(body) ==
    /\ "years" \in DOMAIN body
    /\ "varroa_mite_year" \in DOMAIN body
    /\ 0 < body["varroa_mite_year"]
    /\ body["varroa_mite_year"] < body["years"]
    /\ body["years"] =< MAX_YEARS_TO_SIMULATE

YearsBoundViolated(body) ==
    "years" \in DOMAIN body /\ body["years"] > MAX_YEARS_TO_SIMULATE

VarroaBoundViolated(body) ==
    /\ "years" \in DOMAIN body
    /\ "varroa_mite_year" \in DOMAIN body
    /\ ~(0 < body["varroa_mite_year"] /\ body["varroa_mite_year"] < body["years"])

YearsExceedsMaximum ==
    [status_code |-> 400,
     json |-> [message |-> <<"years cannot be > ", "MAX_YEARS_TO_SIMULATE">>]]

InvalidVarroaMiteYear ==
    [status_code |-> 400,
     json |-> [message |-> <<"varroa_mite_year must be 0 < n < years">>]]

\* the bounds error the body calls for: the years error first
BoundsError(body) ==
    IF YearsBoundViolated(body) THEN YearsExceedsMaximum ELSE InvalidVarroaMiteYear

\* the response is the {message, ...payload} envelope of an InvalidUsage
IsEnvelope(resp) ==
    /\ DOMAIN resp = {"status_code", "json"}
    /\ resp.status_code \in {400, 415}
    /\ DOMAIN resp.json = {"message"}

\* the request carries a subscriber id the callbacks send to
Subscribed(call) == call.socketio_sid # None /\ call.socketio_sid # Some("")

---------------------------------------------------------------------------
(* C1 *)

\* C1 as stated: on both POST endpoints the runner is invoked only if
\* 0 < varroa_mite_year < years <= 30, and whenever either bound is violated
\* the runner is never called and the request ends with the 400 years error
\* (years > 30) or otherwise the 400 varroa_mite_year error.
C1_BoundsViolationAlwaysGivesBoundsError ==
    (BodyRead /\ Handled) =>
        /\ run.started => BoundsHold(request.body)
        /\ (YearsBoundViolated(request.body) \/ VarroaBoundViolated(request.body))
            => /\ pc = "done"
               /\ ~run.started
               /\ response = BoundsError(request.body)

\* the request reaches the bounds gates of do_handle_request: always on
\* /run-sample, on /pollination when validate_request raises nothing
ReachesBoundsGates ==
    \/ request.endpoint = "run-sample"
    \/ validate_request(request.body, request.schema_valid).exc = "None"

\* C1 as amended: on both POST endpoints the runner is invoked only if
\* 0 < varroa_mite_year < years <= 30; whenever either bound is violated the
\* runner is never called and the request ends with an error response, which
\* is the 400 years error (years > 30) or otherwise the 400 varroa_mite_year
\* error whenever the request reaches the bounds gates (always on /run-sample,
\* on /pollination only when request validation passes).
C1_RunnerOnlyWithinBounds ==
    (BodyRead /\ Handled) =>
        /\ run.started => BoundsHold(request.body)
        /\ (YearsBoundViolated(request.body) \/ VarroaBoundViolated(request.body))
            => /\ pc = "done"
               /\ ~run.started
               /\ response.status_code >= 400
               /\ ReachesBoundsGates => response = BoundsError(request.body)

\* a /pollination request that passes validation with varroa_mite_year = years
\* has been answered with the varroa_mite_year error
C1_Witness ==
    /\ pc = "done"
    /\ BodyRead
    /\ request.endpoint = "pollination"
    /\ validate_request(request.body, request.schema_valid).exc = "None"
    /\ "varroa_mite_year" \in DOMAIN request.body
    /\ request.body["varroa_mite_year"] = request.body["years"]
    /\ request.body["years"] = 2
    /\ ~run.started
    /\ response = InvalidVarroaMiteYear

---------------------------------------------------------------------------
(* C2 *)

\* C2 as stated: every error raised in validate_req, validate_request,
\* assert_geojson or do_handle_request (that is, before runner_fn is called)
\* ends the request with the {message} envelope and the error's status code;
\* no such request ends in an unstructured failure response.
C2_EveryErrorIsAnEnvelope ==
    (BodyRead /\ pc = "done" /\ ~run.started) => IsEnvelope(response)

---------------------------------------------------------------------------
(* C3 *)

\* C3 as stated: the progress callbacks never throw; whatever happens to the
\* delivery of an event, the runner continues and the request returns the
\* runner's result.
C3_CallbacksNeverThrow ==
    (pc = "done" /\ run.started) => response = jsonify(runner_result(run))

---------------------------------------------------------------------------
(* C4 *)

---------------------------------------------------------------------------
(* C5 *)

\* C5: when the body has no socketio_sid, nothing is emitted during the whole
\* run and the response is the runner's return value, a function of the
\* runner's arguments alone.
C5_NoSubscriberNoEvents ==
    (Handled /\ run.started /\ run.socketio_sid = None) =>
        /\ events = <<>>
        /\ pc = "done" => response = jsonify(runner_result(run))

\* a 3-year run without subscriber id has completed, all callbacks called
C5_Witness ==
    /\ pc = "done"
    /\ run.started
    /\ run.socketio_sid = None
    /\ run.count_sent
    /\ run.years_done = 3
    /\ events = <<>>
    /\ response.status_code = 200

---------------------------------------------------------------------------
(* C6 *)

\* the rules of a single-polygon feature collection, stated on the document
IsFeatureCollection(doc) ==
    "type" \in DOMAIN doc
        /\ doc["type"] \in {s_FeatureCollection, s_featurecollection,
                            s_FEATURECOLLECTION}

HasOneFeature(doc) ==
    "features" \in DOMAIN doc /\ Len(doc["features"]) = 1

IsPolygonFeature(feat) ==
    /\ "geometry" \in DOMAIN feat
    /\ "type" \in DOMAIN feat["geometry"]
    /\ feat["geometry"]["type"] \in {s_Polygon, s_POLYGON}

IsSinglePolygon(doc) ==
    /\ IsFeatureCollection(doc)
    /\ HasOneFeature(doc)
    /\ IsPolygonFeature(doc["features"][1])

\* the response is a validation error about the named geometry field
IsGeometryError(resp, key) ==
    /\ IsEnvelope(resp)
    /\ resp.status_code = 400
    /\ \E i \in DOMAIN resp.json.message : resp.json.message[i] = key

\* C6 as stated, for the /pollination requests that conform to the schema and
\* carry a varroa_mite_year: the response carries the error of the first
\* failing gate in the order content-type, missing fields, crop type, farm
\* geometry, reveg geometry, years > 30, varroa_mite_year bounds.
C6_FirstFailingGateDecides ==
    (/\ request.endpoint = "pollination"
     /\ request.accept_ok
     /\ Handled
     /\ request.is_json => (/\ request.schema_valid
                            /\ "varroa_mite_year" \in DOMAIN request.body))
    =>
    IF ~request.is_json
    THEN response.status_code = 415 /\ IsEnvelope(response)
    ELSE LET body == request.body IN
    IF \E i \in DOMAIN required_keys : required_keys[i] \notin DOMAIN body
    THEN response = [status_code |-> 400,
                     json |-> [message |-> <<"POST body must have the keys: ",
                                             required_keys>>]]
    ELSE IF body[crop_type_key] \notin {"apple", "canola", "lucerne"}
    THEN response = [status_code |-> 400,
                     json |-> [message |-> <<"crop_type must be one of: ",
                                             valid_crop_types>>]]
    ELSE IF ~IsSinglePolygon(body["farm"])
    THEN IsGeometryError(response, "farm")
    ELSE IF ~IsSinglePolygon(body["reveg"])
    THEN IsGeometryError(response, "reveg")
    ELSE IF YearsBoundViolated(body)
    THEN response = YearsExceedsMaximum
    ELSE IF VarroaBoundViolated(body)
    THEN response = InvalidVarroaMiteYear
    ELSE run.started

---------------------------------------------------------------------------
(* C7 *)

\* C7 as stated: on /run-sample a JSON body that fails request validation is
\* not stopped by that failure: the error is logged, and the request either
\* goes on to the sample runner or is stopped by a bounds gate.
C7_SampleValidationNeverStops ==
    (/\ request.endpoint = "run-sample"
     /\ BodyRead
     /\ Handled
     /\ validate_request(request.body, request.schema_valid).exc # "None")
    =>
        /\ log # <<>>
        /\ log[1] = [level |-> "exception",
                     error |-> validate_request(request.body,
                                                request.schema_valid)]
        /\ \/ run.started /\ run.runner_fn = "execute_model_for_sample_data"
           \/ /\ pc = "done"
              /\ response \in {YearsExceedsMaximum, InvalidVarroaMiteYear}

---------------------------------------------------------------------------
(* C8 *)

EstimateAnswered ==
    /\ pc = "done"
    /\ request.endpoint = "estimate-runtime"
    /\ request.years_arg.kind = "int"
    /\ request.years_arg.value >= 1

Max(a, b) == IF a >= b THEN a ELSE b

\* the least integer k with k * d >= n, for d > 0
LeastMultiple(n, d) ==
    CHOOSE k \in 0..n : k * d >= n /\ \A j \in 0..(k - 1) : j * d < n

\* C8 as stated: for years >= 1 the estimate is
\* max(15, ceil(4 * years / (1 + cpuCount/10))); 29 for years 10, cpuCount 4.
C8_CeilingAfterMultiplying ==
    EstimateAnswered =>
        LET years == request.years_arg.value
            cpu == request.cpu_count
        IN  /\ response = [status_code |-> 200,
                           json |-> [seconds |->
                                Max(15, LeastMultiple(40 * years, 10 + cpu))]]
            /\ (years = 10 /\ cpu = 4) => response.json.seconds = 29

\* C8 as amended: for years >= 1 the estimate is
\* max(15, 4 * ceil(years / (1 + cpuCount/10))), the quotient and its ceiling
\* taken in double precision (one more than the exact ceiling for years 21 or
\* 42 with cpuCount 4, and years 42 with cpuCount 18); 32 for years 10,
\* cpuCount 4.
C8_CeilingBeforeMultiplying ==
    EstimateAnswered =>
        LET years == request.years_arg.value
            cpu == request.cpu_count
            above == IF <<years, cpu>> \in {<<21, 4>>, <<42, 4>>, <<42, 18>>}
                     THEN 1 ELSE 0
        IN  /\ response = [status_code |-> 200,
                           json |-> [seconds |->
                                Max(15, 4 * (LeastMultiple(10 * years, 10 + cpu)
                                             + above))]]
            /\ (years = 10 /\ cpu = 4) => response.json.seconds = 32

\* the estimate for 10 years on 4 CPUs has been answered: 32 seconds
C8_Witness ==
    /\ EstimateAnswered
    /\ request.years_arg.value = 10
    /\ request.cpu_count = 4
    /\ response.status_code = 200
    /\ response.json.seconds = 32

---------------------------------------------------------------------------
(* C9 *)

\* C9 as stated, for the documents geojson.loads reads: assert_geojson
\* succeeds iff the document is a FeatureCollection (any letter case) with
\* exactly one feature whose geometry is a Polygon (any letter case), and
\* otherwise raises the validation error of the first violated rule, whose
\* message contains the field name.
C9_FirstViolatedRuleDecides ==
    (/\ geoIn.key # "none"
     /\ geoIn.called
     /\ geojson_loads(geoIn.the_req[geoIn.key]).exc = "None")
    =>
    LET key == geoIn.key
        doc == geoIn.the_req[key]
    IN  IF ~IsFeatureCollection(doc)
        THEN geoOut = [exc |-> "InvalidUsage", status_code |-> 400,
                       message |-> <<key, " vector is not a FeatureCollection">>]
        ELSE IF ~HasOneFeature(doc)
        THEN geoOut = [exc |-> "InvalidUsage", status_code |-> 400,
                       message |-> <<key, " must have exactly 1 feature">>]
        ELSE IF ~IsPolygonFeature(doc["features"][1])
        THEN geoOut = [exc |-> "InvalidUsage", status_code |-> 400,
                       message |-> <<key, " feature is not a Polygon">>]
        ELSE geoOut = NoExc

---------------------------------------------------------------------------
(* C10 *)

\* C10 as stated, for a years parameter that is omitted or an integer: a
\* chart is generated only when the effective years value (the parameter, or
\* 15) is within 1..50; every other value is answered 400 without a chart.
C10_ChartOnlyWithinRange ==
    (/\ pc = "done"
     /\ request.endpoint = "reveg-curve.png"
     /\ request.years_arg.kind # "text")
    =>
    LET years == IF request.years_arg.kind = "int"
                 THEN request.years_arg.value ELSE 15
    IN  IF 1 =< years /\ years =< 50
        THEN response = [status_code |-> 200, mimetype |-> "image/png",
                         data |-> generate_chart(years)]
        ELSE response.status_code = 400 /\ "data" \notin DOMAIN response

====
